---- MODULE Spec2Model ----
(***************************************************************************)
(* A model of the HEFT_scheduler repository: the four mappers              *)
(* (heft_algorithm.py, rr_algorithm.py, fcfs_algorithm.py,                 *)
(* shc_algorithm.py) and the asynchronous executor of scheduler.py.        *)
(*                                                                         *)
(* Times and costs are Python floats in the source.  They are modelled as  *)
(* exact rationals: every time value is stored multiplied by Scale, which  *)
(* is divisible by every denominator a mean can have, so that sum/len is   *)
(* exact.  Rounding of float arithmetic is outside the model.              *)
(***************************************************************************)
EXTENDS Integers, Sequences, FiniteSets, TLC

\* ------------------------------------------------------------------ bounds
NumTasks == 3      \* tasks handed to a mapper
MaxCost == 1       \* computation_cost entries range over 0..MaxCost
MaxComm == 1       \* communication_matrix entries range over 0..MaxComm
MaxIter == 2       \* SHC max_iterations ranges over 0..MaxIter
MaxIndex == 2      \* dataset lines (task indexes) range over 1..MaxIndex
MaxLines == 10     \* lines of a dataset
MaxRaw == 2        \* the global generator yields values in 0..MaxRaw
MaxForeignDraws == 1  \* draws by other code between a seed and an SHC run

\* ------------------------------------------------- workers (VM_SPECS roster)
Procs == <<"vm1", "vm2">>
ProcSet == {Procs[i] : i \in 1..Len(Procs)}
CpuCores(vm) == IF vm = "vm1" THEN 1 ELSE 2

\* ---------------------------------------------------------------- helpers
RECURSIVE Gcd(_, _)
Gcd(a, b) == IF b = 0 THEN a ELSE Gcd(b, a % b)
RECURSIVE LcmUpTo(_)
LcmUpTo(n) == IF n <= 1 THEN 1 ELSE LET l == LcmUpTo(n - 1) IN (l * n) \div Gcd(l, n)
\* every mean is over at most Len(Procs) costs or Len(Procs)*(Len(Procs)-1) pairs
Scale == LcmUpTo(IF Len(Procs) > 2 THEN Len(Procs) * (Len(Procs) - 1) ELSE Len(Procs))

Max2(a, b) == IF a >= b THEN a ELSE b
RECURSIVE SumOver(_, _)
SumOver(f, D) == IF D = {} THEN 0 ELSE LET x == CHOOSE x \in D : TRUE IN f[x] + SumOver(f, D \ {x})
MaxOf(S) == CHOOSE m \in S : \A x \in S : x <= m
MinOf(S) == CHOOSE m \in S : \A x \in S : m <= x
Put(f, k, v) == [x \in (DOMAIN f) \cup {k} |-> IF x = k THEN v ELSE f[x]]
Empty == [x \in {} |-> 0]
Range(s) == {s[i] : i \in DOMAIN s}

\* sum(d.values()) / len(d), scaled
Mean(d) == (SumOver(d, DOMAIN d) * Scale) \div Cardinality(DOMAIN d)

VARIABLES
  algo,                    \* the mapper under analysis
  tasks,                   \* the list of Task objects given to the constructor
  loaded_tasks,            \* scheduler.py: the list load_tasks returned (tasks of main)
  communication_matrix,    \* {(from_proc, to_proc): cost}
  max_iterations,          \* SHCAlgorithm.max_iterations
  pc,                      \* position inside schedule_tasks
  idx,                     \* loop index of the running for-loop
  schedule,                \* self.schedule: task_id -> ScheduleEvent
  processor_availability,  \* self.processor_availability
  avg_computation_cost,    \* HEFT self.avg_computation_cost
  upward_ranks,            \* HEFT self.upward_ranks (the memo)
  sorted_tasks,            \* HEFT phase 3 result
  current_assignment,      \* SHC
  current_makespan,        \* SHC
  best_schedule,           \* SHC self.best_schedule
  best_makespan,           \* SHC self.best_makespan ("inf" before the first evaluation)
  initial_makespan,        \* history: makespan of SHC's initial assignment
  result,                  \* the dictionary schedule_tasks returned
  run,                     \* 1 for the first run, 2 for the repeated one
  first_result,            \* history: what the first run returned
  random_stream,           \* module random: the outputs of the global generator for its
                           \* seed, as far as they have been produced
  random_pos,              \* module random: outputs consumed since the last random.seed
  foreign_draws,           \* history: draws by other code since the last random.seed
  best_assignment,         \* main: the assignment handed to the executor
  vm_semaphores,           \* main: free permits of each worker's asyncio.Semaphore
  task_pc,                 \* position of each execute_task_on_vm coroutine
  wait_start_mono,         \* per coroutine: time.monotonic() before the acquisition
  task_wait_time,          \* per coroutine: task_wait_time
  task_start_mono,         \* per coroutine: task_start_mono
  calls,                   \* history: remote calls issued for each task
  call_outcome,            \* history: how each task's remote call ended
  results_list,            \* main: results_list
  main_pc                  \* position of main: "gather", then "joined"

mvars == <<algo, tasks, loaded_tasks, communication_matrix, max_iterations, pc, idx, schedule,
           processor_availability, avg_computation_cost, upward_ranks, sorted_tasks,
           current_assignment, current_makespan, best_schedule, best_makespan,
           initial_makespan, result, run, first_result,
           random_stream, random_pos, foreign_draws>>

evars == <<best_assignment, vm_semaphores, task_pc, wait_start_mono, task_wait_time,
           task_start_mono, calls, call_outcome, results_list, main_pc>>

vars == <<mvars, evars>>

\* ------------------------------------------------------------------ inputs
TaskIds == 1..NumTasks
CostDicts == UNION {[D -> 0..MaxCost] : D \in SUBSET ProcSet}
Pairs == {<<a, b>> \in ProcSet \X ProcSet : a # b}
CommMatrices == UNION {[D -> 0..MaxComm] : D \in SUBSET Pairs}

Edges == {e \in TaskIds \X TaskIds : e[1] # e[2]}
RECURSIVE ReachFrom(_, _, _)
ReachFrom(E, S, n) ==
  IF n = 0 THEN S
  ELSE ReachFrom(E, S \cup {e[2] : e \in {d \in E : d[1] \in S}}, n - 1)
Acyclic(E) == \A t \in TaskIds : t \notin ReachFrom(E, {e[2] : e \in {d \in E : d[1] = t}}, NumTasks)
Dags == {E \in SUBSET Edges : Acyclic(E)}

Orders(S) == {p \in [1..Cardinality(S) -> S] : \A i, j \in DOMAIN p : i # j => p[i] # p[j]}

\* Task(id, computation_cost, predecessors, successors); the predecessor and
\* successor lists are the two directions of one edge relation E.
MkTask(id, cost, E) ==
  [id |-> id, computation_cost |-> cost,
   predecessors |-> {e[1] : e \in {d \in E : d[2] = id}},
   successors |-> {e[2] : e \in {d \in E : d[1] = id}}]

TaskById(id) == CHOOSE t \in Range(tasks) : t.id = id
Ids == {tasks[i].id : i \in DOMAIN tasks}

\* float('inf'): no time of the model is negative, so -1 is free to stand for it
Inf == -1
LessThan(a, b) == IF b = Inf THEN a # Inf ELSE a # Inf /\ a < b
RemoveAt(s, i) == [j \in 1..(Len(s) - 1) |-> IF j < i THEN s[j] ELSE s[j + 1]]

\* mutant: the two times are stored in each other's field
ScheduleEventTimesSwapped(task_id, processor_id, start_time, finish_time) ==
  [task_id |-> task_id, processor_id |-> processor_id,
   start_time |-> finish_time, finish_time |-> start_time]
\* ScheduleEvent(task_id, processor_id, start_time, finish_time)
ScheduleEvent(task_id, processor_id, start_time, finish_time) ==
  [task_id |-> task_id, processor_id |-> processor_id,
   start_time |-> start_time, finish_time |-> finish_time]

\* {p: 0.0 for p in processors}
ZeroAvailability == [p \in ProcSet |-> 0]

\* ===================================================================== HEFT
\* self.tasks = {task.id: task for task in tasks}: the keys in insertion order
TaskKeys == [i \in 1..Len(tasks) |-> tasks[i].id]

\* _calculate_average_computation_cost, for one task
AverageComputationCost(task) ==
  IF DOMAIN task.computation_cost # {} THEN Mean(task.computation_cost) ELSE 0

\* mutant: the sum is divided by the number of all ordered pairs of distinct
\* workers, present in the matrix or not
AverageCommunicationCostAllPairs(from_task_id, to_task_id) ==
  IF DOMAIN communication_matrix = {} THEN 0
  ELSE LET keys == {k \in Pairs : k \in DOMAIN communication_matrix}
       IN (SumOver(communication_matrix, keys) * Scale) \div Cardinality(Pairs)
\* _calculate_average_communication_cost: the task ids are not read
AverageCommunicationCost(from_task_id, to_task_id) ==
  IF DOMAIN communication_matrix = {} THEN 0
  ELSE LET keys == {k \in Pairs : k \in DOMAIN communication_matrix}
       IN IF Cardinality(keys) > 0
          THEN (SumOver(communication_matrix, keys) * Scale) \div Cardinality(keys)
          ELSE 0

\* _calculate_upward_rank(task_id), as the memo (self.upward_ranks) it leaves
RECURSIVE CalculateUpwardRank(_, _)
RECURSIVE RankSuccessors(_, _, _)
CalculateUpwardRank(memo, task_id) ==
  IF task_id \in DOMAIN memo THEN memo
  ELSE LET task == TaskById(task_id) IN
       IF task.successors = {}
       THEN Put(memo, task_id, avg_computation_cost[task_id])
       ELSE LET r == RankSuccessors(memo, task_id, task.successors)
            IN Put(r.memo, task_id, avg_computation_cost[task_id] + r.max)
\* the for-loop over task.successors: the memo after it and max_successor_rank
RankSuccessors(memo, task_id, S) ==
  IF S = {} THEN [memo |-> memo, max |-> 0]
  ELSE LET s == MinOf(S)
           m1 == CalculateUpwardRank(memo, s)
           rest == RankSuccessors(m1, task_id, S \ {s})
       IN [memo |-> rest.memo,
           max |-> Max2(rest.max, m1[s] + AverageCommunicationCost(task_id, s))]

\* sorted(keys, key=..., reverse=True): descending and stable
RECURSIVE SortedDescending(_, _)
SortedDescending(keys, key) ==
  IF Len(keys) = 0 THEN <<>>
  ELSE LET m == MaxOf({key[keys[i]] : i \in DOMAIN keys})
           i == MinOf({j \in DOMAIN keys : key[keys[j]] = m})
       IN <<keys[i]>> \o SortedDescending(RemoveAt(keys, i), key)

\* self.communication_matrix.get(comm_key, 0.0)
CommCost(from_proc, to_proc) ==
  IF <<from_proc, to_proc>> \in DOMAIN communication_matrix
  THEN communication_matrix[<<from_proc, to_proc>>] * Scale ELSE 0

\* mutant: the processor's availability is left out of the maximum
EarliestStartTimeOfPredecessors(task_id, processor_id) ==
  LET task == TaskById(task_id)
      scheduled == {q \in task.predecessors : q \in DOMAIN schedule}
      ready == {schedule[q].finish_time +
                  (IF schedule[q].processor_id = processor_id THEN 0
                   ELSE CommCost(schedule[q].processor_id, processor_id)) : q \in scheduled}
  IN MaxOf({0} \cup ready)
\* _calculate_earliest_start_time
EarliestStartTime(task_id, processor_id) ==
  LET task == TaskById(task_id)
      scheduled == {q \in task.predecessors : q \in DOMAIN schedule}
      ready == {schedule[q].finish_time +
                  (IF schedule[q].processor_id = processor_id THEN 0
                   ELSE CommCost(schedule[q].processor_id, processor_id)) : q \in scheduled}
  IN MaxOf({processor_availability[processor_id]} \cup ready)

\* task.computation_cost.get(processor_id, inf), the average when it is inf
ExecutionTimeHEFT(task_id, processor_id) ==
  LET task == TaskById(task_id) IN
  IF processor_id \in DOMAIN task.computation_cost
  THEN task.computation_cost[processor_id] * Scale
  ELSE avg_computation_cost[task_id]

\* _calculate_earliest_finish_time
EarliestFinishTime(task_id, processor_id) ==
  EarliestStartTime(task_id, processor_id) + ExecutionTimeHEFT(task_id, processor_id)

\* mutant: an equal EFT replaces the best as well (<= in place of <)
BetterEFTOrEqual(eft, best_eft) == LessThan(eft, best_eft) \/ eft = best_eft
\* mutant: an EFT is compared with a best EFT only once there is one
BetterEFTBothFinite(eft, best_eft) == best_eft # Inf /\ eft < best_eft
\* mutant: the winner of a tie between equal EFTs differs from one run to the next
BetterEFTPerRun(eft, best_eft) == LessThan(eft, best_eft) \/ (run = 2 /\ eft = best_eft)
\* the comparison of _select_best_processor: a strictly smaller EFT replaces the best
BetterEFT(eft, best_eft) == LessThan(eft, best_eft)

\* _select_best_processor: the loop from processor i on
RECURSIVE SelectFrom(_, _, _)
SelectFrom(task_id, i, best) ==
  IF i > Len(Procs) THEN best
  ELSE LET eft == EarliestFinishTime(task_id, Procs[i]) IN
       SelectFrom(task_id, i + 1,
                  IF BetterEFT(eft, best.eft)
                  THEN [processor_id |-> Procs[i],
                        est |-> EarliestStartTime(task_id, Procs[i]), eft |-> eft]
                  ELSE best)
SelectBestProcessor(task_id) ==
  SelectFrom(task_id, 1, [processor_id |-> "None", est |-> 0, eft |-> Inf])

\* mutant: min() where get_makespan takes max()
MinFinishTime(sched) ==
  IF DOMAIN sched = {} THEN 0 ELSE MinOf({sched[t].finish_time : t \in DOMAIN sched})
\* get_makespan of HEFT, RR and FCFS: the largest finish_time, 0.0 for no event
MaxFinishTime(sched) ==
  IF DOMAIN sched = {} THEN 0 ELSE MaxOf({sched[t].finish_time : t \in DOMAIN sched})

\* ============================================================ RR, FCFS, SHC
\* mutant: the constructor keeps the list as given
Unsorted(ts) == ts
\* sorted(tasks, key=lambda t: t.id): ascending and stable
RECURSIVE SortedById(_)
SortedById(ts) ==
  IF Len(ts) = 0 THEN <<>>
  ELSE LET m == MinOf({ts[i].id : i \in DOMAIN ts})
           i == MinOf({j \in DOMAIN ts : ts[j].id = m})
       IN <<ts[i]>> \o SortedById(RemoveAt(ts, i))

\* mutant: a missing entry is charged 0.0, without the fallback to the mean
ExecTimeZeroDefault(task, processor_id) ==
  IF processor_id \in DOMAIN task.computation_cost
  THEN task.computation_cost[processor_id] * Scale ELSE 0
\* exec_time = task.computation_cost.get(processor_id, 0.0), replaced by the mean
\* of the known costs when it is 0.0 and the task has any cost
ExecTime(task, processor_id) ==
  LET exec_time == IF processor_id \in DOMAIN task.computation_cost
                   THEN task.computation_cost[processor_id] * Scale ELSE 0
  IN IF exec_time = 0 /\ DOMAIN task.computation_cost # {}
     THEN Mean(task.computation_cost) ELSE exec_time

\* RR: processor_idx = i % num_processors, for the 0-based position i
RRProcessor(i) == Procs[(i % Len(Procs)) + 1]

\* mutant: the last of the minimal ones (a scan with <= in place of <)
FCFSProcessorLastMin(availability) ==
  LET m == MinOf({availability[p] : p \in ProcSet})
  IN Procs[MaxOf({i \in DOMAIN Procs : availability[Procs[i]] = m})]
\* FCFS: min(self.processors, key=...availability): the first of the minimal ones
FCFSProcessor(availability) ==
  LET m == MinOf({availability[p] : p \in ProcSet})
  IN Procs[MinOf({i \in DOMAIN Procs : availability[Procs[i]] = m})]

\* SHC._calculate_schedule_makespan: the loop over the id-sorted tasks from
\* position i on, as [availability, schedule]
RECURSIVE EvaluateFrom(_, _, _, _)
EvaluateFrom(assignment, sorted, i, acc) ==
  IF i > Len(sorted) THEN acc
  ELSE LET task == sorted[i]
           processor_id == assignment[task.id]
           start_time == acc.availability[processor_id]
           finish_time == start_time + ExecTime(task, processor_id)
       IN EvaluateFrom(assignment, sorted, i + 1,
            [availability |-> [acc.availability EXCEPT ![processor_id] = finish_time],
             schedule |-> Put(acc.schedule, task.id,
                              ScheduleEvent(task.id, processor_id, start_time, finish_time))])
\* mutant: min() where the evaluation takes max()
MinAvailability(availability) == MinOf({availability[p] : p \in ProcSet})
\* makespan = max(processor_availability.values())
MaxAvailability(availability) == MaxOf({availability[p] : p \in ProcSet})
CalculateScheduleMakespan(assignment) ==
  LET r == EvaluateFrom(assignment, SortedById(tasks), 1,
                        [availability |-> ZeroAvailability, schedule |-> Empty])
  IN [makespan |-> MaxAvailability(r.availability), schedule |-> r.schedule]

\* Module random: the global generator is a function of its seed, and the values
\* it yields are found as they are first drawn.  random.choice(seq) consumes one
\* output and reduces it to an index of seq; an output first drawn for a choice
\* among n items is recorded as the index it selects.
RawOutputs == 0..MaxRaw
RandomChoice(seq, raw) == seq[(raw % Len(seq)) + 1]
\* the outputs that draws among lens[1], lens[2], ... items need beyond the
\* outputs already known
FreshOutputs(lens) ==
  LET k == Len(lens)
      n == Max2(0, random_pos + k - Len(random_stream))
  IN {f \in [1..n -> RawOutputs] : \A i \in 1..n : f[i] < lens[k - n + i]}

\* mutant: only a strictly better neighbour is accepted
AcceptsStrictly(neighbor_makespan, cur_makespan) == neighbor_makespan < cur_makespan
\* if neighbor_makespan <= current_makespan
Accepts(neighbor_makespan, cur_makespan) == neighbor_makespan <= cur_makespan
\* if current_makespan < self.best_makespan
Improves(cur_makespan, best) == LessThan(cur_makespan, best)

\* get_makespan of the mapper that ran
GetMakespan ==
  IF algo = "shc" THEN best_makespan ELSE MaxFinishTime(schedule)

\* ============================================================= the mappers
Algorithms == {"heft", "shc", "rr", "fcfs"}
StartOf(a) == CASE a = "heft" -> "heft_avg" [] a = "shc" -> "shc_init"
                [] a = "rr" -> "rr" [] a = "fcfs" -> "fcfs"

\* The cost tables: any table, and the tables in which every task knows the
\* cost on the same workers.
AllCosts == [TaskIds -> CostDicts]
UniformCosts == UNION {[TaskIds -> [D -> 0..MaxCost]] : D \in SUBSET ProcSet}

\* HEFT reads the edges and keys its tasks by list position, so its tasks are
\* numbered in list order and the edges may point either way.  RR, FCFS and SHC
\* never read predecessors or successors and order the list by id themselves,
\* so they get edge-free lists in any (RR, FCFS) or in both extreme (SHC) orders.
TaskLists(a) ==
  CASE a = "heft" ->
         {[i \in TaskIds |-> MkTask(i, c[i], E)] : c \in UniformCosts, E \in Dags}
    [] a = "shc" ->
         {[i \in TaskIds |-> MkTask(o[i], c[o[i]], {})] :
            c \in UniformCosts,
            o \in {[i \in TaskIds |-> i], [i \in TaskIds |-> NumTasks + 1 - i]}}
    [] OTHER ->
         {[i \in TaskIds |-> MkTask(o[i], c[o[i]], {})] :
            c \in AllCosts, o \in Orders(TaskIds)}

\* The inputs are drawn, and __init__ of the mapper has run; the executor is
\* not running while a mapper is analysed.
Init ==
  /\ algo \in Algorithms
  /\ tasks \in TaskLists(algo)
  /\ loaded_tasks = <<>>
  /\ communication_matrix \in (IF algo = "heft" THEN CommMatrices ELSE {Empty})
  /\ max_iterations \in (IF algo = "shc" THEN 0..MaxIter ELSE {0})
  /\ pc = StartOf(algo)
  /\ idx = 1
  /\ schedule = Empty
  /\ processor_availability = ZeroAvailability
  /\ avg_computation_cost = Empty
  /\ upward_ranks = Empty
  /\ sorted_tasks = <<>>
  /\ current_assignment = Empty
  /\ current_makespan = 0
  /\ best_schedule = Empty
  /\ best_makespan = Inf
  /\ initial_makespan = Inf
  /\ result = Empty
  /\ run = 1
  /\ first_result = Empty
  /\ random_stream = <<>>
  /\ random_pos = 0
  /\ foreign_draws = 0
  /\ best_assignment = Empty
  /\ vm_semaphores = [vm \in ProcSet |-> 0]
  /\ task_pc = Empty
  /\ wait_start_mono = Empty
  /\ task_wait_time = Empty
  /\ task_start_mono = Empty
  /\ calls = Empty
  /\ call_outcome = Empty
  /\ results_list = <<>>
  /\ main_pc = "idle"

inputs == <<algo, tasks, loaded_tasks, communication_matrix, max_iterations>>
heftvars == <<avg_computation_cost, upward_ranks, sorted_tasks>>
shcvars == <<current_assignment, current_makespan, best_schedule, best_makespan,
             initial_makespan>>
history == <<result, run, first_result>>
rngvars == <<random_stream, random_pos, foreign_draws>>

\* Phase 1
HEFTAverage ==
  /\ pc = "heft_avg"
  /\ avg_computation_cost' = [id \in Ids |-> AverageComputationCost(TaskById(id))]
  /\ pc' = "heft_rank"
  /\ idx' = 1
  /\ UNCHANGED <<evars, rngvars, inputs, schedule, processor_availability, upward_ranks, sorted_tasks,
                 shcvars, history>>

\* Phase 2: one iteration of the loop over self.tasks.keys()
HEFTRank ==
  /\ pc = "heft_rank"
  /\ idx <= Len(TaskKeys)
  /\ upward_ranks' = CalculateUpwardRank(upward_ranks, TaskKeys[idx])
  /\ idx' = idx + 1
  /\ UNCHANGED <<evars, rngvars, inputs, pc, schedule, processor_availability, avg_computation_cost,
                 sorted_tasks, shcvars, history>>

\* Phase 3
HEFTSort ==
  /\ pc = "heft_rank"
  /\ idx > Len(TaskKeys)
  /\ sorted_tasks' = SortedDescending(TaskKeys, upward_ranks)
  /\ pc' = "heft_assign"
  /\ idx' = 1
  /\ UNCHANGED <<evars, rngvars, inputs, schedule, processor_availability, avg_computation_cost,
                 upward_ranks, shcvars, history>>

\* Phase 4: one iteration of the loop over sorted_tasks
HEFTAssign ==
  /\ pc = "heft_assign"
  /\ idx <= Len(sorted_tasks)
  /\ LET task_id == sorted_tasks[idx]
         best == SelectBestProcessor(task_id)
     IN /\ schedule' = Put(schedule, task_id,
                           ScheduleEvent(task_id, best.processor_id, best.est, best.eft))
        /\ processor_availability' =
             [processor_availability EXCEPT ![best.processor_id] = best.eft]
  /\ idx' = idx + 1
  /\ UNCHANGED <<evars, rngvars, inputs, pc, heftvars, shcvars, history>>

\* RRAlgorithm.schedule_tasks: one iteration of the loop over enumerate(self.tasks)
RRStep ==
  /\ pc = "rr"
  /\ idx <= Len(tasks)
  /\ LET task == SortedById(tasks)[idx]
         processor_id == RRProcessor(idx - 1)
         start_time == processor_availability[processor_id]
         finish_time == start_time + ExecTime(task, processor_id)
     IN /\ schedule' = Put(schedule, task.id,
                           ScheduleEvent(task.id, processor_id, start_time, finish_time))
        /\ processor_availability' =
             [processor_availability EXCEPT ![processor_id] = finish_time]
  /\ idx' = idx + 1
  /\ UNCHANGED <<evars, rngvars, inputs, pc, heftvars, shcvars, history>>

\* FCFSAlgorithm.schedule_tasks: one iteration of the loop over self.tasks
FCFSStep ==
  /\ pc = "fcfs"
  /\ idx <= Len(tasks)
  /\ LET task == SortedById(tasks)[idx]
         best_processor == FCFSProcessor(processor_availability)
         start_time == processor_availability[best_processor]
         finish_time == start_time + ExecTime(task, best_processor)
     IN /\ schedule' = Put(schedule, task.id,
                           ScheduleEvent(task.id, best_processor, start_time, finish_time))
        /\ processor_availability' =
             [processor_availability EXCEPT ![best_processor] = finish_time]
  /\ idx' = idx + 1
  /\ UNCHANGED <<evars, rngvars, inputs, pc, heftvars, shcvars, history>>

\* SHC step 1: the random initial assignment, one random.choice(self.processors)
\* per task in list order, and its evaluation
SHCInitial ==
  /\ pc = "shc_init"
  /\ \E fresh \in FreshOutputs([i \in DOMAIN tasks |-> Len(Procs)]) :
       LET stream == random_stream \o fresh
           a == [id \in Ids |->
                   LET i == CHOOSE j \in DOMAIN tasks : tasks[j].id = id
                   IN RandomChoice(Procs, stream[random_pos + i])]
           e == CalculateScheduleMakespan(a)
       IN /\ random_stream' = stream
          /\ current_assignment' = a
          /\ current_makespan' = e.makespan
          /\ best_schedule' = e.schedule
          /\ best_makespan' = e.makespan
          /\ initial_makespan' = e.makespan
  /\ random_pos' = random_pos + Len(tasks)
  /\ pc' = "shc_loop"
  /\ idx' = 1
  /\ UNCHANGED <<evars, inputs, schedule, processor_availability, heftvars, history, foreign_draws>>

\* mutant: the loop body runs before the iteration count is tested
SHCIterateAtLeastOnce ==
  /\ pc = "shc_loop"
  /\ idx <= Max2(1, max_iterations)
  /\ \E fresh \in FreshOutputs(<<Len(tasks), Len(Procs)>>) :
       LET stream == random_stream \o fresh
           random_task == RandomChoice(tasks, stream[random_pos + 1]).id
           new_processor == RandomChoice(Procs, stream[random_pos + 2])
           neighbor_assignment == [current_assignment EXCEPT ![random_task] = new_processor]
           e == CalculateScheduleMakespan(neighbor_assignment)
           accepted == Accepts(e.makespan, current_makespan)
           better == accepted /\ Improves(e.makespan, best_makespan)
       IN /\ random_stream' = stream
          /\ current_assignment' = IF accepted THEN neighbor_assignment ELSE current_assignment
          /\ current_makespan' = IF accepted THEN e.makespan ELSE current_makespan
          /\ best_makespan' = IF better THEN e.makespan ELSE best_makespan
          /\ best_schedule' = IF better THEN e.schedule ELSE best_schedule
  /\ random_pos' = random_pos + 2
  /\ idx' = idx + 1
  /\ UNCHANGED <<evars, inputs, pc, schedule, processor_availability, heftvars,
                 initial_makespan, history, foreign_draws>>
\* SHC step 2: one iteration of the hill-climbing loop, with its two draws
\* random.choice(self.tasks) and random.choice(self.processors)
SHCIterate ==
  /\ pc = "shc_loop"
  /\ idx <= max_iterations
  /\ \E fresh \in FreshOutputs(<<Len(tasks), Len(Procs)>>) :
       LET stream == random_stream \o fresh
           random_task == RandomChoice(tasks, stream[random_pos + 1]).id
           new_processor == RandomChoice(Procs, stream[random_pos + 2])
           neighbor_assignment == [current_assignment EXCEPT ![random_task] = new_processor]
           e == CalculateScheduleMakespan(neighbor_assignment)
           accepted == Accepts(e.makespan, current_makespan)
           better == accepted /\ Improves(e.makespan, best_makespan)
       IN /\ random_stream' = stream
          /\ current_assignment' = IF accepted THEN neighbor_assignment ELSE current_assignment
          /\ current_makespan' = IF accepted THEN e.makespan ELSE current_makespan
          /\ best_makespan' = IF better THEN e.makespan ELSE best_makespan
          /\ best_schedule' = IF better THEN e.schedule ELSE best_schedule
  /\ random_pos' = random_pos + 2
  /\ idx' = idx + 1
  /\ UNCHANGED <<evars, inputs, pc, schedule, processor_availability, heftvars,
                 initial_makespan, history, foreign_draws>>

\* the loop of the running mapper is over
Finished ==
  \/ pc = "heft_assign" /\ idx > Len(sorted_tasks)
  \/ pc \in {"rr", "fcfs"} /\ idx > Len(tasks)
  \/ pc = "shc_loop" /\ idx > max_iterations

\* return self.schedule / return self.best_schedule
Return ==
  /\ Finished
  /\ result' = IF algo = "shc" THEN best_schedule ELSE schedule
  /\ pc' = "returned"
  /\ UNCHANGED <<evars, rngvars, inputs, idx, schedule, processor_availability, heftvars, shcvars,
                 run, first_result>>

\* A second mapper object is constructed on the same inputs, after the first
\* returned.  Before a mapper that draws at random the caller calls random.seed
\* with the seed in force at the first run: the global generator repeats its
\* outputs from the first one on.
NewInstance ==
  /\ pc = "returned"
  /\ run = 1
  /\ run' = 2
  /\ first_result' = result
  /\ result' = Empty
  /\ pc' = StartOf(algo)
  /\ idx' = 1
  /\ schedule' = Empty
  /\ processor_availability' = ZeroAvailability
  /\ avg_computation_cost' = Empty
  /\ upward_ranks' = Empty
  /\ sorted_tasks' = <<>>
  /\ current_assignment' = Empty
  /\ current_makespan' = 0
  /\ best_schedule' = Empty
  /\ best_makespan' = Inf
  /\ initial_makespan' = Inf
  /\ random_pos' = IF algo = "shc" THEN 0 ELSE random_pos
  /\ UNCHANGED <<evars, inputs, random_stream, foreign_draws>>

\* any other code of the process draws from module random
OtherDraw ==
  /\ run = 2
  /\ pc = "shc_init"
  /\ foreign_draws < MaxForeignDraws
  /\ \E fresh \in FreshOutputs(<<MaxRaw + 1>>) : random_stream' = random_stream \o fresh
  /\ random_pos' = random_pos + 1
  /\ foreign_draws' = foreign_draws + 1
  /\ UNCHANGED <<evars, inputs, pc, idx, schedule, processor_availability, heftvars,
                 shcvars, history>>

Next ==
  \/ HEFTAverage \/ HEFTRank \/ HEFTSort \/ HEFTAssign
  \/ RRStep \/ FCFSStep
  \/ SHCInitial \/ SHCIterate
  \/ Return

Spec == Init /\ [][Next]_vars

\* Two runs on identical inputs: the mappers that draw nothing at random are
\* run, and a second object built from the same arguments is run after them.
Deterministic == {"heft", "rr", "fcfs"}
InitTwice == Init /\ algo \in Deterministic
NextTwice ==
  \/ HEFTAverage \/ HEFTRank \/ HEFTSort \/ HEFTAssign
  \/ RRStep \/ FCFSStep
  \/ Return
  \/ NewInstance
SpecTwice == InitTwice /\ [][NextTwice]_vars

\* schedule_tasks is called a second time on the same object: __init__ does not
\* run again, so self.schedule, self.processor_availability and the memos are
\* what the first call left, and the dictionary the first call returned is
\* self.schedule itself.
CallAgain ==
  /\ pc = "returned"
  /\ run = 1
  /\ run' = 2
  /\ first_result' = result
  /\ result' = Empty
  /\ pc' = StartOf(algo)
  /\ idx' = 1
  /\ UNCHANGED <<evars, rngvars, inputs, schedule, processor_availability, heftvars,
                 shcvars>>
NextAgain ==
  \/ HEFTAverage \/ HEFTRank \/ HEFTSort \/ HEFTAssign
  \/ RRStep \/ FCFSStep
  \/ Return
  \/ CallAgain
SpecAgain == InitTwice /\ [][NextAgain]_vars

\* Two SHC runs under one seed: the second object is built from the same
\* arguments after module random was seeded again, and other code may draw from
\* module random before the second run starts.
InitSeeded == Init /\ algo = "shc" /\ max_iterations < MaxIter
NextSeeded ==
  \/ SHCInitial \/ SHCIterate
  \/ Return
  \/ NewInstance
  \/ OtherDraw
SpecSeeded == InitSeeded /\ [][NextSeeded]_vars

\* As many tasks as workers: the mappers that draw nothing at random are given
\* one task per worker of the list, with any cost table, in any list order,
\* with or without edges.
SquareIds == 1..Len(Procs)
SquareEdges == SUBSET {e \in SquareIds \X SquareIds : e[1] < e[2]}
SquareTaskLists ==
  {[i \in SquareIds |-> MkTask(o[i], c[o[i]], E)] :
     c \in [SquareIds -> CostDicts], o \in Orders(SquareIds), E \in SquareEdges}
InitSquare ==
  /\ algo \in Deterministic
  /\ tasks \in SquareTaskLists
  /\ loaded_tasks = <<>>
  /\ communication_matrix \in (IF algo = "heft" THEN CommMatrices ELSE {Empty})
  /\ max_iterations = 0
  /\ pc = StartOf(algo)
  /\ idx = 1
  /\ schedule = Empty
  /\ processor_availability = ZeroAvailability
  /\ avg_computation_cost = Empty
  /\ upward_ranks = Empty
  /\ sorted_tasks = <<>>
  /\ current_assignment = Empty
  /\ current_makespan = 0
  /\ best_schedule = Empty
  /\ best_makespan = Inf
  /\ initial_makespan = Inf
  /\ result = Empty
  /\ run = 1
  /\ first_result = Empty
  /\ random_stream = <<>>
  /\ random_pos = 0
  /\ foreign_draws = 0
  /\ best_assignment = Empty
  /\ vm_semaphores = [vm \in ProcSet |-> 0]
  /\ task_pc = Empty
  /\ wait_start_mono = Empty
  /\ task_wait_time = Empty
  /\ task_start_mono = Empty
  /\ calls = Empty
  /\ call_outcome = Empty
  /\ results_list = <<>>
  /\ main_pc = "idle"
NextSquare ==
  \/ HEFTAverage \/ HEFTRank \/ HEFTSort \/ HEFTAssign
  \/ RRStep \/ FCFSStep
  \/ Return
SpecSquare == InitSquare /\ [][NextSquare]_vars

\* =========================================== TaskScheduler.run_scheduler
\* the names a caller may pass as algorithm_name: the four mappers and names
\* that run_scheduler does not know
AlgorithmNames == Algorithms \cup {"HEFT", "sjf"}
\* mutant: the else branch falls back to HEFT
MapperForDefaulting(algorithm_name) ==
  IF algorithm_name \in {"heft", "shc", "rr", "fcfs"} THEN algorithm_name ELSE "heft"
\* the if/elif chain on algorithm_name; "none" stands for its else branch
MapperFor(algorithm_name) ==
  IF algorithm_name \in {"heft", "shc", "rr", "fcfs"} THEN algorithm_name ELSE "none"

\* get_task_load, in units of 5000: index * index * 10000
TaskLoad(index) == index * index * 2
\* load_tasks: one Task(id, name, index, cpu_load) per line that holds an
\* integer of the range, with the 0-based line number as id; the other lines
\* (0 stands for them) are skipped.  The name is not read by any mapper.
RECURSIVE LoadTasksFrom(_, _)
LoadTasksFrom(lines, i) ==
  IF i > Len(lines) THEN <<>>
  ELSE IF lines[i] = 0 THEN LoadTasksFrom(lines, i + 1)
  ELSE <<[id |-> i - 1, index |-> lines[i], cpu_load |-> TaskLoad(lines[i])]>>
         \o LoadTasksFrom(lines, i + 1)
LoadTasks(lines) == LoadTasksFrom(lines, 1)
\* _create_task_dag: parallel chains, the task at (0-based) position i preceded
\* by the task at position i - num_chains and followed by the one at position
\* i + num_chains, and computation_cost[vm] = cpu_load / cpu_cores
NumChains == 4
\* mutant: the test for a successor stops one position early
CreateTaskDagShortChains(ts) ==
  [i \in DOMAIN ts |->
     [id |-> ts[i].id,
      computation_cost |-> [vm \in ProcSet |-> ts[i].cpu_load \div CpuCores(vm)],
      predecessors |-> IF i - 1 >= NumChains THEN {ts[i - NumChains].id} ELSE {},
      successors |-> IF (i - 1) + NumChains < Len(ts) - 1
                     THEN {ts[i + NumChains].id} ELSE {}]]
CreateTaskDag(ts) ==
  [i \in DOMAIN ts |->
     [id |-> ts[i].id,
      computation_cost |-> [vm \in ProcSet |-> ts[i].cpu_load \div CpuCores(vm)],
      predecessors |-> IF i - 1 >= NumChains THEN {ts[i - NumChains].id} ELSE {},
      successors |-> IF (i - 1) + NumChains < Len(ts)
                     THEN {ts[i + NumChains].id} ELSE {}]]
\* _initialize_communication_matrix
InitialCommunicationMatrix == [pr \in Pairs |-> 1]
\* assignment[task_id] = event.processor_id
Assignment(sched) == [t \in DOMAIN sched |-> sched[t].processor_id]

\* run_scheduler is called with a dataset and a name; it has built the task
\* objects.  SHC is constructed with its default max_iterations, which the
\* model caps at MaxIter.
InitRun ==
  /\ algo \in AlgorithmNames
  /\ loaded_tasks \in {LoadTasks(ix) : ix \in [TaskIds -> 1..MaxIndex]}
  /\ tasks = CreateTaskDag(loaded_tasks)
  /\ communication_matrix = InitialCommunicationMatrix
  /\ max_iterations \in (IF algo = "shc" THEN 0..MaxIter ELSE {0})
  /\ pc = "run_scheduler"
  /\ idx = 1
  /\ schedule = Empty
  /\ processor_availability = ZeroAvailability
  /\ avg_computation_cost = Empty
  /\ upward_ranks = Empty
  /\ sorted_tasks = <<>>
  /\ current_assignment = Empty
  /\ current_makespan = 0
  /\ best_schedule = Empty
  /\ best_makespan = Inf
  /\ initial_makespan = Inf
  /\ result = Empty
  /\ run = 1
  /\ first_result = Empty
  /\ random_stream = <<>>
  /\ random_pos = 0
  /\ foreign_draws = 0
  /\ best_assignment = Empty
  /\ vm_semaphores = [vm \in ProcSet |-> 0]
  /\ task_pc = Empty
  /\ wait_start_mono = Empty
  /\ task_wait_time = Empty
  /\ task_start_mono = Empty
  /\ calls = Empty
  /\ call_outcome = Empty
  /\ results_list = <<>>
  /\ main_pc = "idle"

\* a branch of the if/elif chain constructs the mapper, and schedule_tasks is called
RunSchedulerDispatch ==
  /\ pc = "run_scheduler"
  /\ MapperFor(algo) # "none"
  /\ pc' = StartOf(MapperFor(algo))
  /\ UNCHANGED <<evars, rngvars, inputs, idx, schedule, processor_availability, heftvars,
                 shcvars, history>>

\* the else branch: raise ValueError
RunSchedulerRaise ==
  /\ pc = "run_scheduler"
  /\ MapperFor(algo) = "none"
  /\ pc' = "raised"
  /\ UNCHANGED <<evars, rngvars, inputs, idx, schedule, processor_availability, heftvars,
                 shcvars, history>>

\* the returned schedule is converted and run_scheduler returns the assignment
RunSchedulerReturn ==
  /\ pc = "returned"
  /\ pc' = "assigned"
  /\ best_assignment' = Assignment(result)
  /\ UNCHANGED <<rngvars, inputs, idx, schedule, processor_availability, heftvars,
                 shcvars, history, vm_semaphores, task_pc, wait_start_mono,
                 task_wait_time, task_start_mono, calls, call_outcome, results_list,
                 main_pc>>

NextRun ==
  \/ RunSchedulerDispatch \/ RunSchedulerRaise
  \/ HEFTAverage \/ HEFTRank \/ HEFTSort \/ HEFTAssign
  \/ RRStep \/ FCFSStep
  \/ SHCInitial \/ SHCIterate
  \/ Return
  \/ RunSchedulerReturn

SpecRun == InitRun /\ [][NextRun]_vars

\* ======================================== TaskScheduler._create_task_dag
\* The datasets: up to MaxLines lines, each an index of 1..MaxIndex or a line
\* that load_tasks skips.
Datasets == UNION {[1..n -> 0..MaxIndex] : n \in 0..MaxLines}

\* load_tasks has returned the tasks of a dataset and run_scheduler is about to
\* build the task graph from them
InitDag ==
  /\ algo = "none"
  /\ loaded_tasks \in {LoadTasks(lines) : lines \in Datasets}
  /\ tasks = <<>>
  /\ communication_matrix = InitialCommunicationMatrix
  /\ max_iterations = 0
  /\ pc = "create_task_dag"
  /\ idx = 1
  /\ schedule = Empty
  /\ processor_availability = ZeroAvailability
  /\ avg_computation_cost = Empty
  /\ upward_ranks = Empty
  /\ sorted_tasks = <<>>
  /\ current_assignment = Empty
  /\ current_makespan = 0
  /\ best_schedule = Empty
  /\ best_makespan = Inf
  /\ initial_makespan = Inf
  /\ result = Empty
  /\ run = 1
  /\ first_result = Empty
  /\ random_stream = <<>>
  /\ random_pos = 0
  /\ foreign_draws = 0
  /\ best_assignment = Empty
  /\ vm_semaphores = [vm \in ProcSet |-> 0]
  /\ task_pc = Empty
  /\ wait_start_mono = Empty
  /\ task_wait_time = Empty
  /\ task_start_mono = Empty
  /\ calls = Empty
  /\ call_outcome = Empty
  /\ results_list = <<>>
  /\ main_pc = "idle"

\* heft_tasks = self._create_task_dag(tasks)
CreateTaskDagCall ==
  /\ pc = "create_task_dag"
  /\ tasks' = CreateTaskDag(loaded_tasks)
  /\ pc' = "run_scheduler"
  /\ UNCHANGED <<evars, rngvars, algo, loaded_tasks, communication_matrix, max_iterations,
                 idx, schedule, processor_availability, heftvars, shcvars, history>>

NextDag == CreateTaskDagCall

SpecDag == InitDag /\ [][NextDag]_vars

\* ============================================================ the executor
NumExecTasks == 4
\* the tasks dispatched: main creates one coroutine per entry of best_assignment
ExecTasks == DOMAIN best_assignment

\* main, up to asyncio.gather: the mapper has returned an assignment (any total
\* one: SHC can return each), one semaphore per worker holds cpu_cores permits,
\* and one coroutine per task is created.
InitExec ==
  /\ algo = "none"
  /\ tasks = <<>>
  /\ loaded_tasks = <<>>
  /\ communication_matrix = Empty
  /\ max_iterations = 0
  /\ pc = "returned"
  /\ idx = 1
  /\ schedule = Empty
  /\ processor_availability = ZeroAvailability
  /\ avg_computation_cost = Empty
  /\ upward_ranks = Empty
  /\ sorted_tasks = <<>>
  /\ current_assignment = Empty
  /\ current_makespan = 0
  /\ best_schedule = Empty
  /\ best_makespan = Inf
  /\ initial_makespan = Inf
  /\ result = Empty
  /\ run = 1
  /\ first_result = Empty
  /\ random_stream = <<>>
  /\ random_pos = 0
  /\ foreign_draws = 0
  /\ best_assignment \in [1..NumExecTasks -> ProcSet]
  /\ vm_semaphores = [vm \in ProcSet |-> CpuCores(vm)]
  /\ task_pc = [t \in ExecTasks |-> "created"]
  /\ wait_start_mono = [t \in ExecTasks |-> 0]
  /\ task_wait_time = [t \in ExecTasks |-> -1]
  /\ task_start_mono = [t \in ExecTasks |-> 0]
  /\ calls = [t \in ExecTasks |-> 0]
  /\ call_outcome = [t \in ExecTasks |-> "none"]
  /\ results_list = <<>>
  /\ main_pc = "gather"

\* time.monotonic(), in the only unit the executor's bookkeeping can tell apart:
\* time advances by one whenever a remote call completes, so a reading is the
\* number of calls completed so far, and a coroutine resumed by the completion
\* of its own call reads one more.
Now == Len(results_list)
NowAfterCall == Len(results_list) + 1

\* asyncio.Semaphore: acquire takes a permit, __aexit__ gives it back whatever
\* exception (exc) leaves the block
\* mutant: acquire() never finds the semaphore locked
LockedNever(sem, vm) == FALSE
Locked(sem, vm) == sem[vm] = 0
\* mutant: acquire() that forgets to count the permit it hands out
SemAcquireUncounted(sem, vm) == sem
SemAcquire(sem, vm) == [sem EXCEPT ![vm] = @ - 1]
\* mutant: the permit is given back on the normal exit only
SemExitOnSuccessOnly(sem, vm, exc) == IF exc THEN sem ELSE [sem EXCEPT ![vm] = @ + 1]
SemExit(sem, vm, exc) == [sem EXCEPT ![vm] = @ + 1]

\* the dictionary appended in the finally block
ResultRow(t, exec_time) ==
  [index |-> t, vm_assigned |-> best_assignment[t], exec_time |-> exec_time,
   wait_time |-> task_wait_time[t]]

\* the body of "async with vm_semaphore" up to "await client.get(...)"
EnterCall(t) ==
  /\ vm_semaphores' = SemAcquire(vm_semaphores, best_assignment[t])
  /\ task_wait_time' = [task_wait_time EXCEPT ![t] = Now - wait_start_mono'[t]]
  /\ task_start_mono' = [task_start_mono EXCEPT ![t] = Now]
  /\ calls' = [calls EXCEPT ![t] = @ + 1]
  /\ task_pc' = [task_pc EXCEPT ![t] = "calling"]

\* mutant: a coroutine starts only when the calls of the task's predecessors
\* have completed
StartTaskAfterPredecessors(t) ==
  /\ main_pc = "gather"
  /\ task_pc[t] = "created"
  /\ \A i \in DOMAIN tasks :
       tasks[i].id = t => \A q \in tasks[i].predecessors : task_pc[q] = "done"
  /\ wait_start_mono' = [wait_start_mono EXCEPT ![t] = Now]
  /\ IF ~Locked(vm_semaphores, best_assignment[t])
     THEN EnterCall(t)
     ELSE /\ task_pc' = [task_pc EXCEPT ![t] = "waiting"]
          /\ UNCHANGED <<vm_semaphores, task_wait_time, task_start_mono, calls>>
  /\ UNCHANGED <<mvars, best_assignment, call_outcome, results_list, main_pc>>
\* the coroutine runs from its start to its first suspension: it takes a permit
\* and issues the call, or it blocks in acquire()
StartTask(t) ==
  /\ main_pc = "gather"
  /\ task_pc[t] = "created"
  /\ wait_start_mono' = [wait_start_mono EXCEPT ![t] = Now]
  /\ IF ~Locked(vm_semaphores, best_assignment[t])
     THEN EnterCall(t)
     ELSE /\ task_pc' = [task_pc EXCEPT ![t] = "waiting"]
          /\ UNCHANGED <<vm_semaphores, task_wait_time, task_start_mono, calls>>
  /\ UNCHANGED <<mvars, best_assignment, call_outcome, results_list, main_pc>>

\* a blocked coroutine is woken with a permit
AcquirePermit(t) ==
  /\ task_pc[t] = "waiting"
  /\ ~Locked(vm_semaphores, best_assignment[t])
  /\ UNCHANGED wait_start_mono
  /\ EnterCall(t)
  /\ UNCHANGED <<mvars, best_assignment, call_outcome, results_list, main_pc>>

\* what follows the await, to the end of the coroutine: the semaphore is left,
\* the exception (if any) is caught and the finally block appends the result
\* mutant: a failing call cancels the coroutines that have not finished
LeaveCancellingSiblings(t, exc, exec_time) ==
  /\ vm_semaphores' = SemExit(vm_semaphores, best_assignment[t], exc)
  /\ results_list' = Append(results_list, ResultRow(t, exec_time))
  /\ task_pc' = [u \in ExecTasks |-> IF u = t \/ exc THEN "done" ELSE task_pc[u]]
\* mutant: a failing call is recorded and then tried again
LeaveRetrying(t, exc, exec_time) ==
  /\ vm_semaphores' = SemExit(vm_semaphores, best_assignment[t], exc)
  /\ results_list' = Append(results_list, ResultRow(t, exec_time))
  /\ task_pc' = [task_pc EXCEPT ![t] = IF exc THEN "created" ELSE "done"]
Leave(t, exc, exec_time) ==
  /\ vm_semaphores' = SemExit(vm_semaphores, best_assignment[t], exc)
  /\ results_list' = Append(results_list, ResultRow(t, exec_time))
  /\ task_pc' = [task_pc EXCEPT ![t] = "done"]

\* gather schedules every coroutine before main suspends, and the event loop
\* runs all that are ready before it polls the network: no response is seen
\* before every coroutine has run to its first suspension
AllStarted == \A u \in ExecTasks : task_pc[u] # "created"

\* the response arrives with a 2xx status
CallReturns(t) ==
  /\ AllStarted
  /\ task_pc[t] = "calling"
  /\ Leave(t, FALSE, NowAfterCall - task_start_mono[t])
  /\ call_outcome' = [call_outcome EXCEPT ![t] = "ok"]
  /\ UNCHANGED <<mvars, best_assignment, wait_start_mono, task_wait_time,
                 task_start_mono, calls, main_pc>>

\* mutant: the exception leaves the block without the permit being given back
CallFailsHoldingPermit(t) ==
  /\ AllStarted
  /\ task_pc[t] = "calling"
  /\ results_list' = Append(results_list, ResultRow(t, -1))
  /\ task_pc' = [task_pc EXCEPT ![t] = "done"]
  /\ call_outcome' = [call_outcome EXCEPT ![t] = "error"]
  /\ UNCHANGED <<mvars, best_assignment, vm_semaphores, wait_start_mono, task_wait_time,
                 task_start_mono, calls, main_pc>>
\* the call times out, the transport fails or raise_for_status raises
CallFails(t) ==
  /\ AllStarted
  /\ task_pc[t] = "calling"
  /\ Leave(t, TRUE, -1)
  /\ call_outcome' = [call_outcome EXCEPT ![t] = "error"]
  /\ UNCHANGED <<mvars, best_assignment, wait_start_mono, task_wait_time,
                 task_start_mono, calls, main_pc>>

\* await asyncio.gather(...) returns
Join ==
  /\ main_pc = "gather"
  /\ \A t \in ExecTasks : task_pc[t] = "done"
  /\ main_pc' = "joined"
  /\ UNCHANGED <<mvars, best_assignment, vm_semaphores, task_pc, wait_start_mono,
                 task_wait_time, task_start_mono, calls, call_outcome, results_list>>

\* calculate_and_print_metrics(results_list, vms, total_schedule_time), called by
\* main after the join.  A quotient is kept as numerator and denominator.
\* mutant: the filter keeps every row whose exec_time is not 0
SuccessDfNonZero(rows) == {i \in DOMAIN rows : rows[i].exec_time # 0}
\* success_df = df[df['exec_time'] > 0]: the positions of the rows kept
SuccessDf(rows) == {i \in DOMAIN rows : rows[i].exec_time > 0}
\* success_df.groupby('vm_assigned')['exec_time'].sum(): one entry per worker
\* that occurs in a row of success_df
VmExecTimes(rows) ==
  [vm \in {rows[i].vm_assigned : i \in SuccessDf(rows)} |->
     SumOver([i \in DOMAIN rows |-> rows[i].exec_time],
             {i \in SuccessDf(rows) : rows[i].vm_assigned = vm})]
CalculateMetrics(rows, total_schedule_time) ==
  LET success_df == SuccessDf(rows)
      vm_exec_times == VmExecTimes(rows)
      loads == {vm_exec_times[vm] : vm \in DOMAIN vm_exec_times}
      max_load == MaxOf(loads)
      min_load == MinOf(loads)
      avg_load == <<SumOver(vm_exec_times, DOMAIN vm_exec_times),
                    Cardinality(DOMAIN vm_exec_times)>>
      num_tasks == Cardinality(success_df)
      total_cpu_time == SumOver([i \in DOMAIN rows |-> rows[i].exec_time], success_df)
      total_wait_time == SumOver([i \in DOMAIN rows |-> rows[i].wait_time], success_df)
      makespan == total_schedule_time
  IN IF success_df = {} THEN [computed |-> FALSE]
     ELSE [computed |-> TRUE,
           num_tasks |-> num_tasks,
           total_cpu_time |-> total_cpu_time,
           total_wait_time |-> total_wait_time,
           avg_exec_time |-> <<total_cpu_time, num_tasks>>,
           makespan |-> makespan,
           throughput |-> IF makespan > 0 THEN <<num_tasks, makespan>> ELSE <<0, 1>>,
           max_load |-> max_load,
           min_load |-> min_load,
           avg_load |-> avg_load,
           imbalance_degree |-> IF avg_load[1] > 0
                                THEN <<(max_load - min_load) * avg_load[2], avg_load[1]>>
                                ELSE <<0, 1>>]
\* total_schedule_time = schedule_end_time - schedule_start_time, read around gather
TotalScheduleTime == Now

NextExec ==
  \/ \E t \in ExecTasks : StartTask(t)
  \/ \E t \in ExecTasks : AcquirePermit(t)
  \/ \E t \in ExecTasks : CallReturns(t)
  \/ \E t \in ExecTasks : CallFails(t)
  \/ Join

SpecExec == InitExec /\ [][NextExec]_vars

\* The executor under the conditions a run can rely on: client.get is given
\* timeout=300.0, so every call returns, fails or times out; the event loop
\* runs every coroutine that is ready, and a release wakes a waiter.
FairExec ==
  /\ \A t \in 1..NumExecTasks :
       /\ WF_vars(StartTask(t))
       /\ WF_vars(AcquirePermit(t))
       /\ WF_vars(CallReturns(t) \/ CallFails(t))
  /\ WF_vars(Join)
SpecExecFair == InitExec /\ [][NextExec]_vars /\ FairExec

\* The executor behind run_scheduler: a dataset of num_chains + 1 lines, the
\* smallest whose task graph has an edge, was loaded and its graph built, and
\* the mapper has returned an assignment of its tasks.  The executor reads
\* neither the index of a task nor its cost: every line holds index 1.
InitExecDag ==
  /\ algo = "none"
  /\ loaded_tasks = LoadTasks([i \in 1..(NumChains + 1) |-> 1])
  /\ tasks = CreateTaskDag(loaded_tasks)
  /\ communication_matrix = InitialCommunicationMatrix
  /\ max_iterations = 0
  /\ pc = "assigned"
  /\ idx = 1
  /\ schedule = Empty
  /\ processor_availability = ZeroAvailability
  /\ avg_computation_cost = Empty
  /\ upward_ranks = Empty
  /\ sorted_tasks = <<>>
  /\ current_assignment = Empty
  /\ current_makespan = 0
  /\ best_schedule = Empty
  /\ best_makespan = Inf
  /\ initial_makespan = Inf
  /\ result = Empty
  /\ run = 1
  /\ first_result = Empty
  /\ random_stream = <<>>
  /\ random_pos = 0
  /\ foreign_draws = 0
  /\ best_assignment \in [{tasks[i].id : i \in DOMAIN tasks} -> ProcSet]
  /\ vm_semaphores = [vm \in ProcSet |-> CpuCores(vm)]
  /\ task_pc = [t \in DOMAIN best_assignment |-> "created"]
  /\ wait_start_mono = [t \in DOMAIN best_assignment |-> 0]
  /\ task_wait_time = [t \in DOMAIN best_assignment |-> -1]
  /\ task_start_mono = [t \in DOMAIN best_assignment |-> 0]
  /\ calls = [t \in DOMAIN best_assignment |-> 0]
  /\ call_outcome = [t \in DOMAIN best_assignment |-> "none"]
  /\ results_list = <<>>
  /\ main_pc = "gather"

SpecExecDag == InitExecDag /\ [][NextExec]_vars

\* ================================================================== claims
Returned == pc = "returned"

\* C1: in the schedule HEFT returns, every edge predecessor -> successor has
\* finish(predecessor) + communication cost (different workers) or
\* finish(predecessor) (same worker) at most start(successor).
EdgeRespected(sched, p, t) ==
  IF sched[p].processor_id # sched[t].processor_id
  THEN sched[p].finish_time + CommCost(sched[p].processor_id, sched[t].processor_id)
         <= sched[t].start_time
  ELSE sched[p].finish_time <= sched[t].start_time
C1_PrecedenceRespected ==
  (algo = "heft" /\ Returned) =>
    \A t \in Ids : \A p \in TaskById(t).predecessors : EdgeRespected(result, p, t)

\* the cost the mapper charges task t on the worker it was assigned to
ChargedCost(sched, t) ==
  IF algo = "heft" THEN ExecutionTimeHEFT(t, sched[t].processor_id)
  ELSE ExecTime(TaskById(t), sched[t].processor_id)
\* 0-based position of an id in the id-sorted task list
PositionOfId(id) == Cardinality({u \in Ids : u < id})
TasksOn(sched, p) == {t \in DOMAIN sched : sched[t].processor_id = p}

\* C6: after schedule_tasks of any of the four mappers, get_makespan is at
\* least the cost charged for every task on its assigned worker.
C6_MakespanLowerBound ==
  Returned => \A t \in DOMAIN result : GetMakespan >= ChargedCost(result, t)
\* a mapper returned a schedule whose makespan is more than one task's cost
\* (tasks queue on a worker) and every task has been charged
C6_Witness ==
  /\ Returned
  /\ DOMAIN result = Ids
  /\ \E t \in Ids : ChargedCost(result, t) > 0
  /\ \A t \in Ids : GetMakespan > ChargedCost(result, t)

\* C7: RR gives the task at position i of the id-sorted list to
\* workers[i mod W], so each worker gets floor(N/W) or ceil(N/W) tasks.
C7_RoundRobin ==
  algo = "rr" =>
    /\ \A t \in DOMAIN schedule :
         schedule[t].processor_id = Procs[(PositionOfId(t) % Len(Procs)) + 1]
    /\ Returned =>
         \A p \in ProcSet :
           LET n == Cardinality(TasksOn(result, p))
               floor == NumTasks \div Len(Procs)
           IN n = floor \/ (NumTasks % Len(Procs) # 0 /\ n = floor + 1)
\* RR returned for a list that was not in id order, with unequal shares
C7_Witness ==
  /\ algo = "rr" /\ Returned
  /\ \E i \in DOMAIN tasks : tasks[i].id # i
  /\ \E p, q \in ProcSet :
       Cardinality(TasksOn(result, p)) > Cardinality(TasksOn(result, q))

\* C8: every FCFS step takes the next task in id order and puts it on the first
\* worker of the list among those of minimal availability; the task starts at
\* that availability and the availability becomes the task's finish time.
C8_FCFSGreedy ==
  [][(algo = "fcfs" /\ DOMAIN schedule' \ DOMAIN schedule # {}) =>
       LET t == CHOOSE x \in DOMAIN schedule' \ DOMAIN schedule : TRUE
           ev == schedule'[t]
           p == ev.processor_id
           k == CHOOSE i \in DOMAIN Procs : Procs[i] = p
       IN /\ DOMAIN schedule = {u \in Ids : u < t}
          /\ DOMAIN schedule' = DOMAIN schedule \cup {t}
          /\ \A q \in ProcSet : processor_availability[p] <= processor_availability[q]
          /\ \A j \in 1..(k - 1) :
               processor_availability[Procs[j]] > processor_availability[p]
          /\ ev.start_time = processor_availability[p]
          /\ ev.finish_time >= ev.start_time
          /\ processor_availability' =
               [processor_availability EXCEPT ![p] = ev.finish_time]]_vars
\* FCFS returned after a step with a tie (the first one) and after steps where
\* the second worker was strictly the least loaded one
C8_Witness ==
  /\ algo = "fcfs" /\ Returned
  /\ \E t \in Ids : result[t].processor_id = Procs[1] /\ result[t].start_time = 0
  /\ \E t, u \in Ids :
       /\ t # u
       /\ result[t].processor_id = Procs[2] /\ result[u].processor_id = Procs[2]
       /\ result[u].start_time > 0

\* C9: over an SHC run best_makespan never increases from one iteration to the
\* next, never exceeds the makespan of the initial assignment, and the returned
\* schedule has exactly the makespan get_makespan reports.
C9_SHCMonotone ==
  /\ [][algo = "shc" => ~LessThan(best_makespan, best_makespan')]_vars
  /\ [](algo = "shc" /\ pc \in {"shc_loop", "returned"} =>
          /\ initial_makespan # Inf
          /\ ~LessThan(initial_makespan, best_makespan))
  /\ [](algo = "shc" /\ Returned =>
          /\ result = best_schedule
          /\ DOMAIN result = Ids
          /\ MaxOf({result[t].finish_time : t \in Ids}) = GetMakespan)
\* SHC returned after its iterations strictly improved on the initial assignment
C9_Witness ==
  /\ algo = "shc" /\ Returned
  /\ max_iterations > 0
  /\ best_makespan > 0
  /\ LessThan(best_makespan, initial_makespan)

Joined == main_pc = "joined"
OnWorker(vm) == {t \in DOMAIN best_assignment : best_assignment[t] = vm}
\* the tasks between acquiring and releasing the semaphore of vm
InFlight(vm) == {t \in OnWorker(vm) : task_pc[t] = "calling"}
RowsOf(t) == {i \in DOMAIN results_list : results_list[i].index = t}
SomeCallFailed == \E t \in DOMAIN call_outcome : call_outcome[t] = "error"

\* C2: at no time do more tasks hold a permit of a worker than the worker has
\* cpu_cores, whatever the interleaving and whichever calls fail.
C2_PermitsBoundInFlight ==
  \A vm \in ProcSet : Cardinality(InFlight(vm)) <= CpuCores(vm)
\* a worker is full, a third task of it is blocked, after a call of it failed
C2_Witness ==
  \E vm \in ProcSet :
    /\ Cardinality(InFlight(vm)) = CpuCores(vm)
    /\ \E t \in OnWorker(vm) : task_pc[t] = "waiting"
    /\ \E t \in OnWorker(vm) : call_outcome[t] = "error"

\* C3: every permit taken is given back on every exit: the free permits and the
\* permits held always add up to the capacity, so no finished task (failed or
\* not) keeps one, and after the join every worker has all its permits.
C3_PermitsReleased ==
  /\ \A vm \in ProcSet :
       vm_semaphores[vm] + Cardinality(InFlight(vm)) = CpuCores(vm)
  /\ Joined => \A vm \in ProcSet : vm_semaphores[vm] = CpuCores(vm)
\* the join is over and calls failed on a worker that had tasks queueing
C3_Witness ==
  /\ Joined
  /\ \E vm \in ProcSet :
       /\ \E t \in OnWorker(vm) : call_outcome[t] = "error"
       /\ \E t \in OnWorker(vm) : task_wait_time[t] > 0
       /\ vm_semaphores[vm] = CpuCores(vm)

\* C4: a failed call is recorded with exec_time = -1 and stops nobody else: a
\* task is finished only after it issued its own call and appended its own
\* row, a task that is not finished can still go on (it is not blocked for
\* good), and the join happens only when all have finished.
CanProceed(u) ==
  task_pc[u] = "waiting" =>
    \/ ~Locked(vm_semaphores, best_assignment[u])
    \/ InFlight(best_assignment[u]) # {}
C4_FailureIsolated ==
  /\ \A t \in DOMAIN call_outcome :
       call_outcome[t] = "error" =>
         \E i \in RowsOf(t) : results_list[i].exec_time = -1
  /\ \A u \in DOMAIN task_pc :
       /\ task_pc[u] = "done" =>
            /\ calls[u] = 1
            /\ call_outcome[u] # "none"
            /\ \E i \in RowsOf(u) :
                 (results_list[i].exec_time = -1) = (call_outcome[u] = "error")
       /\ task_pc[u] # "done" => CanProceed(u)
  /\ Joined => \A u \in ExecTasks : task_pc[u] = "done"
\* the first call to complete failed, and a task that was queueing behind it
\* got its permit afterwards and succeeded
C4_Witness ==
  /\ Joined
  /\ results_list[1].exec_time = -1
  /\ \E i \in DOMAIN results_list :
       /\ results_list[i].exec_time > 0
       /\ results_list[i].wait_time > 0
       /\ results_list[i].vm_assigned = results_list[1].vm_assigned

\* C5: a task has at most one remote call and at most one row, the row exists
\* exactly when the task has finished, and after the join the rows are one per
\* dispatched task.
C5_OneResultPerTask ==
  /\ \A t \in DOMAIN task_pc :
       /\ calls[t] <= 1
       /\ Cardinality(RowsOf(t)) = (IF task_pc[t] = "done" THEN 1 ELSE 0)
  /\ Joined =>
       /\ Len(results_list) = NumExecTasks
       /\ \A t \in ExecTasks : Cardinality(RowsOf(t)) = 1
\* the join is over with failed and successful tasks in the results
C5_Witness ==
  /\ Joined
  /\ \E i, j \in DOMAIN results_list :
       results_list[i].exec_time = -1 /\ results_list[j].exec_time > 0

\* -------------------------------------------------- claims on the random source
SameAssignment(a, b) ==
  /\ DOMAIN a = DOMAIN b
  /\ \A t \in DOMAIN a : a[t].processor_id = b[t].processor_id

\* C11: SHC takes its draws from a source passed in to the mapper, so that a
\* second SHC run under the same seed and on the same inputs returns the same
\* assignment whatever other code has drawn in between.
C11_SeedReproduces ==
  (algo = "shc" /\ run = 2 /\ Returned) => SameAssignment(result, first_result)

\* ------------------------------------------------------ claims on the cost rule
\* the schedule the running mapper has built so far / has returned
BuiltSchedule ==
  IF Returned THEN result ELSE IF algo = "shc" THEN best_schedule ELSE schedule
Duration(ev) == ev.finish_time - ev.start_time
KnownCosts(t) == TaskById(t).computation_cost
\* d is the arithmetic mean of the known costs of task t (d in Scale units)
IsMeanOfKnown(d, t) ==
  d * Cardinality(DOMAIN KnownCosts(t)) =
    Scale * SumOver(KnownCosts(t), DOMAIN KnownCosts(t))
MissingEntry(sched, t) ==
  /\ sched[t].processor_id \notin DOMAIN KnownCosts(t)
  /\ DOMAIN KnownCosts(t) # {}

\* C12: in every mapper a task placed on a worker that its computation_cost has
\* no entry for, while it has entries for other workers, is charged the mean of
\* its known costs (and so more than zero when a known cost is positive).
C12_MissingCostIsMean ==
  \A t \in DOMAIN BuiltSchedule :
    MissingEntry(BuiltSchedule, t) =>
      /\ IsMeanOfKnown(Duration(BuiltSchedule[t]), t)
      /\ (\E p \in DOMAIN KnownCosts(t) : KnownCosts(t)[p] > 0) =>
           Duration(BuiltSchedule[t]) > 0
\* HEFT returned a schedule with a task on a worker it has no cost for, charged
\* a positive mean
C12_Witness ==
  /\ Returned /\ algo = "heft"
  /\ \E t \in DOMAIN result :
       MissingEntry(result, t) /\ Duration(result[t]) > 0

\* the duration HEFT charges: the explicit entry when there is one, the mean of
\* the known costs when the entry is missing (0.0 when nothing is known)
HEFTCostRule(t, p) ==
  IF p \in DOMAIN KnownCosts(t) THEN KnownCosts(t)[p] * Scale
  ELSE IF DOMAIN KnownCosts(t) = {} THEN 0
  ELSE Mean(KnownCosts(t))

\* C13: RR and FCFS charge every task on its worker what HEFT charges there:
\* the explicit entry when present, also when it is 0 while other entries are
\* positive, and the mean of the known costs only when the entry is missing.
C13_SameCostRuleAsHEFT ==
  algo \in {"rr", "fcfs"} =>
    \A t \in DOMAIN schedule :
      Duration(schedule[t]) = HEFTCostRule(t, schedule[t].processor_id)

\* -------------------------------------------- claims on the returned assignment
InputIds == {tasks[i].id : i \in DOMAIN tasks}

\* C14: when schedule_tasks of any mapper completes, the assignment is a total
\* function over the task set: every input id is mapped to one worker of the
\* worker list, and no other id appears.
C14_AssignmentTotal ==
  Returned =>
    /\ DOMAIN Assignment(result) = InputIds
    /\ \A t \in DOMAIN result :
         /\ result[t].task_id = t
         /\ Assignment(result)[t] \in ProcSet
\* a mapper returned for a task list that was not in id order, and the
\* assignment uses more than one worker
C14_Witness ==
  /\ Returned
  /\ Cardinality(InputIds) = NumTasks
  /\ DOMAIN result = InputIds
  /\ \E i \in DOMAIN tasks : tasks[i].id # i
  /\ \E t, u \in DOMAIN result : Assignment(result)[t] # Assignment(result)[u]

\* C15: run_scheduler accepts exactly heft, shc, rr and fcfs: every other name
\* raises before any mapper has run and no assignment is returned, and none of
\* the four names raises.
C15_UnknownAlgorithmFatal ==
  /\ algo \notin {"heft", "shc", "rr", "fcfs"} =>
       /\ pc \in {"run_scheduler", "raised"}
       /\ schedule = Empty /\ best_schedule = Empty /\ result = Empty
       /\ random_pos = 0
       /\ best_assignment = Empty
  /\ algo \in {"heft", "shc", "rr", "fcfs"} => pc # "raised"
\* run_scheduler raised for a name it does not know
C15_Witness == pc = "raised" /\ algo = "sjf" /\ best_assignment = Empty

\* --------------------------------------------- claims on one task per worker
\* n independent tasks with distinct ids, each of cost c on every worker, for
\* the n workers of the list
EqualIndependentTasks(c) ==
  /\ Len(tasks) = Len(Procs)
  /\ Cardinality(InputIds) = Len(tasks)
  /\ \A i \in DOMAIN tasks :
       /\ tasks[i].predecessors = {} /\ tasks[i].successors = {}
       /\ tasks[i].computation_cost = [p \in ProcSet |-> c]
OneTaskPerWorkerAtZero(c) ==
  /\ DOMAIN result = InputIds
  /\ \A p \in ProcSet : Cardinality(TasksOn(result, p)) = 1
  /\ \A t \in DOMAIN result : result[t].start_time = 0
  /\ GetMakespan = c * Scale

\* C16 as stated: for n independent tasks of equal cost c on n workers HEFT, RR
\* and FCFS place one task on every worker, every task starts at 0 and the
\* makespan is c, for every cost c.
C16_OneTaskPerWorker ==
  (Returned /\ algo \in {"heft", "rr", "fcfs"}) =>
    \A c \in 0..MaxCost : EqualIndependentTasks(c) => OneTaskPerWorkerAtZero(c)
\* C16, amended: the same for every cost c > 0.
C16_OneTaskPerWorkerPositive ==
  (Returned /\ algo \in {"heft", "rr", "fcfs"}) =>
    \A c \in 1..MaxCost : EqualIndependentTasks(c) => OneTaskPerWorkerAtZero(c)
\* HEFT returned for independent tasks of equal positive cost, given in a list
\* that is not in id order
C16_Witness ==
  /\ Returned /\ algo = "heft"
  /\ \E c \in 1..MaxCost : EqualIndependentTasks(c) /\ OneTaskPerWorkerAtZero(c)
  /\ \E i \in DOMAIN tasks : tasks[i].id # i

\* ------------------------------------------------ claims on SHC's iterations
\* the assignment that SHC's first draws select, one per task in list order
DrawnInitialAssignment ==
  [id \in InputIds |->
     LET i == CHOOSE j \in DOMAIN tasks : tasks[j].id = id
     IN Procs[(random_stream[i] % Len(Procs)) + 1]]

\* C17: SHC with max_iterations = 0 mutates nothing: the returned schedule and
\* the reported makespan are those of the random initial assignment, which is
\* both the current and the best one.
C17_ZeroIterations ==
  (algo = "shc" /\ max_iterations = 0 /\ Returned) =>
    /\ random_pos = Len(tasks)
    /\ Assignment(result) = DrawnInitialAssignment
    /\ current_assignment = DrawnInitialAssignment
    /\ result = CalculateScheduleMakespan(DrawnInitialAssignment).schedule
    /\ GetMakespan = initial_makespan
    /\ current_makespan = initial_makespan
    /\ GetMakespan = MaxOf({result[t].finish_time : t \in DOMAIN result})
\* SHC returned with max_iterations = 0 from an initial assignment that uses
\* both workers and has a positive makespan
C17_Witness ==
  /\ algo = "shc" /\ max_iterations = 0 /\ Returned
  /\ GetMakespan > 0
  /\ \E t, u \in DOMAIN result : result[t].processor_id # result[u].processor_id

\* ------------------------------------------------- claims on queueing tasks
\* the tasks of vm that took a permit without blocking
TookPermitAtOnce(vm) ==
  {t \in OnWorker(vm) : task_pc[t] \in {"calling", "done"} /\ task_wait_time[t] = 0}
\* the rows appended by tasks of vm: each marks a release of a permit of vm
ReleasesOf(vm) ==
  {i \in DOMAIN results_list : results_list[i].vm_assigned = vm}

\* C18: of the tasks dispatched to one worker only capacity-many take a permit
\* without waiting; every further one blocks in the acquisition and starts its
\* call only after an earlier task of the worker has released a permit, and the
\* wait it records reaches at least to that release.
C18_QueueBeyondCapacity ==
  /\ [](\A vm \in ProcSet :
          /\ Cardinality(TookPermitAtOnce(vm)) <= CpuCores(vm)
          /\ AllStarted =>
               Cardinality(TookPermitAtOnce(vm)) =
                 (IF Cardinality(OnWorker(vm)) < CpuCores(vm)
                  THEN Cardinality(OnWorker(vm)) ELSE CpuCores(vm)))
  /\ [][\A t \in DOMAIN task_pc :
          LET vm == best_assignment[t] IN
          /\ (task_pc[t] = "created" /\ task_pc'[t] # "created") =>
               IF Cardinality(InFlight(vm)) < CpuCores(vm)
               THEN task_pc'[t] = "calling" /\ task_wait_time'[t] = 0
               ELSE task_pc'[t] = "waiting" /\ calls'[t] = 0
          /\ (task_pc[t] = "waiting" /\ task_pc'[t] # "waiting") =>
               /\ task_pc'[t] = "calling"
               /\ \E i \in ReleasesOf(vm) :
                    /\ results_list[i].index # t
                    /\ i > wait_start_mono[t]
                    /\ task_start_mono'[t] >= i
                    /\ task_wait_time'[t] >= i - wait_start_mono[t]
               /\ task_wait_time'[t] > 0]_vars
\* four tasks on a worker of capacity two, all finished: two of them waited
\* for nothing and the other two waited for a release
C18_Witness ==
  /\ Joined
  /\ \E vm \in ProcSet :
       /\ Cardinality(OnWorker(vm)) = 4
       /\ CpuCores(vm) = 2
       /\ Cardinality(TookPermitAtOnce(vm)) = 2
       /\ Cardinality({t \in OnWorker(vm) : task_wait_time[t] > 0}) = 2

\* ------------------------------------------------------ claims on the metrics
Succeeded == {t \in DOMAIN call_outcome : call_outcome[t] = "ok"}
Failed == {t \in DOMAIN call_outcome : call_outcome[t] = "error"}
RowOf(t) == results_list[CHOOSE i \in DOMAIN results_list : results_list[i].index = t]

\* C19: the metrics count and aggregate exactly the tasks whose call succeeded:
\* a failed or timed-out task (exec_time = -1) is left out of the task count,
\* of the throughput and of avg_exec_time, one less per failed task, and every
\* task whose call succeeded is in.
C19_MetricsOnlySuccessful ==
  Joined =>
    LET m == CalculateMetrics(results_list, TotalScheduleTime) IN
    /\ \A t \in Failed : RowOf(t).exec_time = -1
    /\ m.computed = (Succeeded # {})
    /\ m.computed =>
         /\ m.num_tasks = Cardinality(Succeeded)
         /\ m.num_tasks = NumExecTasks - Cardinality(Failed)
         /\ m.total_cpu_time =
              SumOver([t \in ExecTasks |-> RowOf(t).exec_time], Succeeded)
         /\ m.avg_exec_time = <<m.total_cpu_time, Cardinality(Succeeded)>>
         /\ m.throughput = <<Cardinality(Succeeded), TotalScheduleTime>>
\* the join is over with one failed task among successful ones that took
\* different times
C19_Witness ==
  /\ Joined
  /\ Cardinality(Failed) = 1
  /\ \E t, u \in Succeeded : RowOf(t).exec_time # RowOf(u).exec_time
  /\ CalculateMetrics(results_list, TotalScheduleTime).computed

\* ------------------------------------------- claims on HEFT's worker selection
\* EST of task t on worker p: the worker's availability and, for each
\* predecessor that has a finish time, that time plus the communication cost
\* when the predecessor is on another worker
StatedEST(t, p) ==
  LET preds == {q \in TaskById(t).predecessors : q \in DOMAIN schedule}
      arrival(q) ==
        schedule[q].finish_time +
          (IF schedule[q].processor_id # p /\
              <<schedule[q].processor_id, p>> \in DOMAIN communication_matrix
           THEN communication_matrix[<<schedule[q].processor_id, p>>] * Scale ELSE 0)
  IN MaxOf({processor_availability[p]} \cup {arrival(q) : q \in preds})
StatedEFT(t, p) == StatedEST(t, p) + HEFTCostRule(t, p)

KeyPosition(id) == CHOOSE i \in DOMAIN TaskKeys : TaskKeys[i] = id
\* s lists every task once, by descending upward rank, tasks of equal rank in
\* insertion order
DescendingStable(s) ==
  /\ Len(s) = Len(TaskKeys)
  /\ Range(s) = Range(TaskKeys)
  /\ \A i, j \in DOMAIN s :
       i < j =>
         \/ upward_ranks[s[i]] > upward_ranks[s[j]]
         \/ /\ upward_ranks[s[i]] = upward_ranks[s[j]]
            /\ KeyPosition(s[i]) < KeyPosition(s[j])
\* no task stands before one of its predecessors
PredecessorsFirst(s) ==
  \A i, j \in DOMAIN s : i < j => s[j] \notin TaskById(s[i]).predecessors

\* C21: HEFT schedules the tasks by descending upward rank, tasks of equal rank
\* in insertion order, and under this order every task is scheduled only after
\* all of its predecessors, also when a predecessor and its successor have
\* equal rank.
C21_RankOrderSchedulesPredecessorsFirst ==
  (algo = "heft" /\ pc \in {"heft_assign", "returned"}) =>
    /\ DescendingStable(sorted_tasks)
    /\ PredecessorsFirst(sorted_tasks)
    /\ \A t \in DOMAIN schedule : TaskById(t).predecessors \subseteq DOMAIN schedule


\* ------------------------------------------------ claims on the upward rank
\* the mean of a task's cost entries, 0 without entries
ReferenceAvgCost(t) ==
  IF DOMAIN KnownCosts(t) = {} THEN 0 ELSE Mean(KnownCosts(t))
\* the mean of the matrix entries of the ordered pairs of distinct workers,
\* 0 when there is none
ReferenceAvgComm ==
  LET entries == DOMAIN communication_matrix \cap Pairs
  IN IF entries = {} THEN 0
     ELSE (SumOver(communication_matrix, entries) * Scale) \div Cardinality(entries)
\* avg_cost[t] without successors, else avg_cost[t] + max (rank[s] + avg_comm)
RECURSIVE ReferenceRank(_)
ReferenceRank(t) ==
  IF TaskById(t).successors = {} THEN ReferenceAvgCost(t)
  ELSE ReferenceAvgCost(t) +
         MaxOf({ReferenceRank(s) + ReferenceAvgComm : s \in TaskById(t).successors})

\* C22: the upward rank HEFT memoizes for a task is the reference recurrence
\* over the DAG, every task has its rank when the ranking phase is over, and a
\* memoized rank is written once and never changes afterwards.
C22_UpwardRankIsReference ==
  /\ [](algo = "heft" =>
          /\ \A t \in DOMAIN upward_ranks : upward_ranks[t] = ReferenceRank(t)
          /\ pc \in {"heft_assign", "returned"} => DOMAIN upward_ranks = Ids)
  /\ [][algo = "heft" =>
          \A t \in DOMAIN upward_ranks :
            t \in DOMAIN upward_ranks' /\ upward_ranks'[t] = upward_ranks[t]]_vars
\* the ranking phase is over for a DAG with a task of two successors, one of
\* which precedes the other, under a matrix with one entry of positive cost:
\* the three ranks differ
C22_Witness ==
  /\ algo = "heft" /\ pc = "heft_assign"
  /\ DOMAIN upward_ranks = Ids
  /\ Cardinality(DOMAIN communication_matrix) = 1
  /\ ReferenceAvgComm > 0
  /\ \E t \in Ids :
       /\ Cardinality(TaskById(t).successors) = 2
       /\ \E s, u \in TaskById(t).successors :
            /\ u \in TaskById(s).successors
            /\ upward_ranks[t] > upward_ranks[s]
            /\ upward_ranks[s] > upward_ranks[u]
            /\ upward_ranks[u] > 0


\* ------------------------------------------------ claims on the task graph
DagCreated == pc = "run_scheduler" /\ algo = "none"
\* the edges that the predecessor lists / the successor lists of ts state
PredecessorEdges(ts) ==
  UNION {{<<p, ts[i].id>> : p \in ts[i].predecessors} : i \in DOMAIN ts}
SuccessorEdges(ts) ==
  UNION {{<<ts[i].id, q>> : q \in ts[i].successors} : i \in DOMAIN ts}
\* the edges from each list position to the position NumChains further on
ChainEdges(ts) ==
  {<<ts[i].id, ts[i + NumChains].id>> : i \in {j \in DOMAIN ts : j + NumChains <= Len(ts)}}
\* no task reaches itself along the edges E
NoCycle(ts, E) ==
  \A i \in DOMAIN ts :
    ts[i].id \notin ReachFrom(E, {e[2] : e \in {d \in E : d[1] = ts[i].id}}, Len(ts))

\* C23: the task graph built from any list of loaded tasks keeps the tasks and
\* their ids in list order; task B lists A as predecessor exactly when A lists
\* B as successor; the edges are those from list position i to position i + 4;
\* the relation has no cycle; and the cost of a task on a worker is
\* index^2 * 10000 divided by the worker's capacity (here in units of 5000).
C23_TaskGraphIsDag ==
  DagCreated =>
    /\ Len(tasks) = Len(loaded_tasks)
    /\ \A i \in DOMAIN tasks : tasks[i].id = loaded_tasks[i].id
    /\ PredecessorEdges(tasks) = SuccessorEdges(tasks)
    /\ SuccessorEdges(tasks) = ChainEdges(tasks)
    /\ NoCycle(tasks, SuccessorEdges(tasks))
    /\ \A i \in DOMAIN tasks :
         /\ DOMAIN tasks[i].computation_cost = ProcSet
         /\ \A vm \in ProcSet :
              tasks[i].computation_cost[vm] * CpuCores(vm)
                = loaded_tasks[i].index * loaded_tasks[i].index * 2
\* the graph of nine loaded tasks of a dataset with a skipped line: a chain of
\* three tasks, and tasks of different indexes
C23_Witness ==
  /\ DagCreated
  /\ Len(tasks) = 9
  /\ \E i \in DOMAIN tasks : tasks[i].id # i - 1
  /\ tasks[5].predecessors = {tasks[1].id} /\ tasks[5].successors = {tasks[9].id}
  /\ \E i, j \in DOMAIN tasks :
       tasks[i].computation_cost # tasks[j].computation_cost


\* ------------------------------------- claims on precedence in the executor
\* the predecessors that the task graph gives task t
PredecessorsOf(t) == UNION {tasks[i].predecessors : i \in {j \in DOMAIN tasks : tasks[j].id = t}}
HasUnfinishedPredecessor(t) == \E q \in PredecessorsOf(t) : task_pc[q] # "done"

\* C24: the executor does not wait for predecessors: a task whose predecessor
\* has not finished (or not started) its call can start its coroutine, takes a
\* permit when its worker has a free one, and can leave the queue of its
\* worker as soon as a permit is free.
C24_NoPrecedenceInExecutor ==
  \A t \in ExecTasks :
    HasUnfinishedPredecessor(t) =>
      /\ (main_pc = "gather" /\ task_pc[t] = "created") =>
           /\ ENABLED StartTask(t)
           /\ ~Locked(vm_semaphores, best_assignment[t]) =>
                ENABLED (StartTask(t) /\ task_pc'[t] = "calling")
      /\ (task_pc[t] = "waiting" /\ ~Locked(vm_semaphores, best_assignment[t])) =>
           ENABLED AcquirePermit(t)
\* the call of a successor is in flight while the call of its predecessor,
\* issued on the same worker of two permits, has not finished; the tasks
\* between them in the list are on the other worker
C24_Witness ==
  \E t \in ExecTasks :
    \E q \in PredecessorsOf(t) :
      /\ task_pc[t] = "calling" /\ task_pc[q] = "calling"
      /\ best_assignment[t] = best_assignment[q]
      /\ \A u \in ExecTasks \ {t, q} : best_assignment[u] # best_assignment[t]


\* ------------------------------------------------ claims on the executor's join
\* C25: when every call ends and the coroutines are scheduled fairly, the join
\* completes: every dispatched task gets its permit, issues its call and
\* records its result, and a task that waits for a permit gets one, also
\* after calls of its worker have failed.
C25_JoinCompletes ==
  /\ <>Joined
  /\ \A t \in 1..NumExecTasks :
       /\ <>(task_pc[t] = "done" /\ calls[t] = 1 /\ RowsOf(t) # {})
       /\ (task_pc[t] = "waiting") ~> (task_pc[t] = "calling")
       /\ (task_pc[t] = "waiting" /\ SomeCallFailed) ~> (task_pc[t] = "done")
\* the join is over although calls failed, and a task that waited got its
\* permit from a task whose call had failed
C25_Witness ==
  /\ Joined
  /\ Cardinality({t \in DOMAIN call_outcome : call_outcome[t] = "error"}) >= 2
  /\ \E t \in DOMAIN task_pc :
       /\ task_wait_time[t] > 0
       /\ task_start_mono[t] \in DOMAIN results_list
       /\ results_list[task_start_mono[t]].exec_time = -1
       /\ results_list[task_start_mono[t]].vm_assigned = best_assignment[t]
       /\ CpuCores(best_assignment[t]) = 1


\* --------------------------------------------- claims on returned schedules
\* C26: a schedule a mapper returned is never mutated afterwards: during and
\* after a second schedule_tasks call on the same HEFT, RR or FCFS object the
\* dictionary returned by the first call (self.schedule) holds the events it
\* held when it was returned, and the second call returns the same assignment
\* with the same start and finish times.
C26_ReturnedScheduleNeverMutated ==
  (algo \in Deterministic /\ run = 2) =>
    /\ schedule = first_result
    /\ Returned => result = first_result


\* --------------------------------------------------- claims on the imbalance
\* the load of a worker of the roster: the exec_time of the successful tasks
\* assigned to it, 0 when it has none
RosterLoad(vm) ==
  SumOver([t \in ExecTasks |-> RowOf(t).exec_time],
          {t \in Succeeded : best_assignment[t] = vm})
\* (max load - min load) / average load over the roster, 0 for average load 0,
\* as numerator and denominator
RosterImbalance ==
  LET total == SumOver([vm \in ProcSet |-> RosterLoad(vm)], ProcSet)
      spread == MaxOf({RosterLoad(vm) : vm \in ProcSet})
                  - MinOf({RosterLoad(vm) : vm \in ProcSet})
  IN IF total > 0 THEN <<spread * Cardinality(ProcSet), total>> ELSE <<0, 1>>
SameQuotient(a, b) == a[1] * b[2] = b[1] * a[2]

\* C27: imbalance_degree is (max load - min load) / average load over the
\* workers of the roster, a worker without successful task counting with load
\* 0, and it is 0 when the average load is 0.
C27_ImbalanceOverRoster ==
  Joined =>
    LET m == CalculateMetrics(results_list, TotalScheduleTime) IN
    m.computed => SameQuotient(m.imbalance_degree, RosterImbalance)


\* ------------------------------------------------ claims on the events' times
\* C28: in the schedule a mapper builds and returns every event has
\* finish_time >= start_time >= 0, and two distinct tasks on one worker never
\* overlap: one finishes no later than the other starts.
C28_EventsDoNotOverlap ==
  \A t \in DOMAIN BuiltSchedule :
    /\ BuiltSchedule[t].start_time >= 0
    /\ BuiltSchedule[t].finish_time >= BuiltSchedule[t].start_time
    /\ \A u \in DOMAIN BuiltSchedule \ {t} :
         BuiltSchedule[u].processor_id = BuiltSchedule[t].processor_id =>
           \/ BuiltSchedule[t].finish_time <= BuiltSchedule[u].start_time
           \/ BuiltSchedule[u].finish_time <= BuiltSchedule[t].start_time
\* HEFT returned a schedule with two tasks of positive duration on one worker,
\* the later one starting after an idle gap, and with a task on the other worker
C28_Witness ==
  /\ algo = "heft" /\ Returned
  /\ DOMAIN result = Ids
  /\ \E t, u \in Ids :
       /\ t # u
       /\ result[t].processor_id = result[u].processor_id
       /\ Duration(result[t]) > 0 /\ Duration(result[u]) > 0
       /\ result[u].start_time > result[t].finish_time
  /\ \E t, u \in Ids : result[t].processor_id # result[u].processor_id


\* ------------------------------------------------ claims on SHC's acceptance
\* the neighbour of an iteration: the current assignment with the drawn task
\* given to the drawn worker, the two draws being the outputs the iteration
\* consumed
DrawnNeighbor ==
  LET random_task == tasks[(random_stream'[random_pos + 1] % Len(tasks)) + 1].id
      new_processor == Procs[(random_stream'[random_pos + 2] % Len(Procs)) + 1]
  IN [t \in DOMAIN current_assignment |->
        IF t = random_task THEN new_processor ELSE current_assignment[t]]
MakespanOf(assignment) == CalculateScheduleMakespan(assignment).makespan
SHCIterates == algo = "shc" /\ pc = "shc_loop" /\ idx' = idx + 1

\* C29: an SHC iteration adopts its neighbour as current exactly when the
\* neighbour's makespan is <= the current makespan; the current makespan never
\* increases, and after every iteration (and at the return) best_makespan
\* equals the current makespan, which is the makespan of the current assignment.
C29_AcceptsIffNotWorse ==
  /\ [][SHCIterates =>
          /\ IF MakespanOf(DrawnNeighbor) <= current_makespan
             THEN /\ current_assignment' = DrawnNeighbor
                  /\ current_makespan' = MakespanOf(DrawnNeighbor)
             ELSE /\ current_assignment' = current_assignment
                  /\ current_makespan' = current_makespan
          /\ current_makespan' <= current_makespan
          /\ best_makespan' = current_makespan']_vars
  /\ [](algo = "shc" /\ pc \in {"shc_loop", "returned"} =>
          /\ best_makespan = current_makespan
          /\ current_makespan = MakespanOf(current_assignment)
          /\ MaxFinishTime(best_schedule) = best_makespan)
\* SHC returned after an improving move and a plateau move: the best schedule
\* kept is another assignment than the current one, of the same positive
\* makespan, which is below the initial one
C29_Witness ==
  /\ algo = "shc" /\ Returned
  /\ max_iterations = MaxIter
  /\ Assignment(best_schedule) # current_assignment
  /\ best_makespan = current_makespan
  /\ best_makespan > 0
  /\ LessThan(best_makespan, initial_makespan)

====
